---- MODULE Spec2Model ----
(***************************************************************************)
(* Token-metadata subsystem of TokenForge: the Express router              *)
(* server/api (src/unnamed/part_002) over the tables token_metadata,       *)
(* temporary_metadata and token_metadata_history with their triggers       *)
(* (src/supabase/migrations).                                              *)
(*                                                                         *)
(* Every `await query(...)` of a handler is one atomic step; a request     *)
(* slot holds the handler's position (pc) and its local variables, so      *)
(* other requests and the environment interleave between two statements.   *)
(* A trigger runs inside the statement that fires it.                      *)
(***************************************************************************)
EXTENDS Integers, Sequences, FiniteSets, TLC

\* ------------------------------------------------------------------ bounds

\* The clock runs for MaxTicks steps of 36 hours.
MaxTicks == 1
\* temporary_metadata.id is SERIAL: at most MaxSessionSerial rows are ever inserted.
MaxSessionSerial == 1
\* uuidv4() of the web client is drawn at most MaxUuid times.
MaxUuid == 2
\* token_metadata_history grows by one row per UPDATE: capped in the guards.
MaxHistory == 2

\* --------------------------------------------------------------- constants

\* INTERVAL '24 hours'
Interval24h == 24

\* SQL NULL, and a JavaScript undefined/null once bound as a query parameter.
NULL == "NULL"

\* ------------------------------------------------------------------ inputs

\* req.user.address as the auth middleware hands it over (checksummed or not).
Callers == {"0xA", "0xb"}
\* tokenAddress as sent by a client: of one token, of two.
OneAddr == {"0xT1"}
TwoAddrs == {"0xT1", "0xt2"}
\* tokenAddress of a request that may leave it out.
OptAddr == {"0xT1", NULL}
\* :tokenAddress of a read, in either case.
AddrVariants == {"0xT1", "0xt1", "0xT2", "0xt2"}
\* process.env.ADMIN_ADDRESSES, split at the commas.
ADMIN_ADDRESSES == {"0xA"}
\* tokens.network_id of a token row, and process.env[<NETWORK>_RPC_URL].
NetworkIds == {"bsc", NULL}
RpcUrls == {"https://rpc.example", NULL}
\* walletAddress as a caller of verifyTokenOwnership passes it.
WalletAddrs == {"0xA", "0xa", "0xb", NULL}
\* tokens.contract_address and tokens.owner_address as the token registry stores them.
ContractAddrs == {"0xt1", "0xt2"}
OwnerAddrs == {"0xA", "0xb"}
\* Owners as the chain reports them.
ChainOwners == {"0xa", "0xb"}
\* Client-generated session ids: one, two.
OneSession == {"s1"}
TwoSessions == {"s1", "s2"}

\* String.prototype.toLowerCase on the addresses above.
toLowerCase(s) ==
  CASE s = "0xA" -> "0xa"
    [] s = "0xB" -> "0xb"
    [] s = "0xT1" -> "0xt1"
    [] s = "0xT2" -> "0xt2"
    [] OTHER -> s

\* Request bodies (req.body of POST /temporary, POST / and PUT /:tokenAddress).
BodyFoo ==
  [name |-> "Foo", symbol |-> "FOO", description |-> "first",
   logoData |-> NULL, logoUrl |-> NULL,
   websiteUrl |-> "https://foo.io", twitterUrl |-> NULL, telegramUrl |-> NULL,
   discordUrl |-> NULL, whitepaperUrl |-> NULL, githubUrl |-> NULL,
   tags |-> "{DeFi}"]

BodyBar ==
  [name |-> "Bar", symbol |-> "BAR", description |-> "second",
   logoData |-> "data:image/png;base64,AAAA", logoUrl |-> "https://cdn.bar/logo.png",
   websiteUrl |-> NULL, twitterUrl |-> "https://x.com/bar", telegramUrl |-> NULL,
   discordUrl |-> NULL, whitepaperUrl |-> NULL, githubUrl |-> NULL,
   tags |-> "{Gaming}"]

Bodies == {BodyFoo, BodyBar}

\* A body as a client other than the form may send it: a link without TLS.
BodyHttp == [BodyFoo EXCEPT !.websiteUrl = "http://foo.io"]
UrlBodies == {BodyFoo, BodyHttp}

\* req.file candidates of POST /upload-logo: the part named logo as the
\* client sent it (mimetype, size in bytes), or no such part.
NoFile == [mimetype |-> NULL, size |-> 0]
PngFile == [mimetype |-> "image/png", size |-> 1048576]
BigPngFile == [mimetype |-> "image/png", size |-> 1048577]
GifFile == [mimetype |-> "image/gif", size |-> 2048]
AcceptedFiles == {PngFile}
AnyFiles == {PngFile, BigPngFile, GifFile, NoFile}

EmptyBody ==
  [name |-> NULL, symbol |-> NULL, description |-> NULL,
   logoData |-> NULL, logoUrl |-> NULL,
   websiteUrl |-> NULL, twitterUrl |-> NULL, telegramUrl |-> NULL,
   discordUrl |-> NULL, whitepaperUrl |-> NULL, githubUrl |-> NULL,
   tags |-> NULL]

\* ------------------------------------------------------------------- state

VARIABLES
  now,                \* CURRENT_TIMESTAMP, in hours
  tokens,             \* table tokens: rows [contract_address, owner_address]
  chainOwner,         \* what owner() of the deployed contract returns
  token_metadata,     \* table token_metadata
  temporary_metadata, \* table temporary_metadata
  sessionSerial,      \* the sequence behind temporary_metadata.id
  history,            \* table token_metadata_history, in insertion order
  req,                \* the request slots: handler, position, locals, response
  metadataService     \* the web client's MetadataService and its calls

vars == <<now, tokens, chainOwner, token_metadata, temporary_metadata,
          sessionSerial, history, req, metadataService>>

\* The three tables of the metadata subsystem.
db == <<token_metadata, temporary_metadata, sessionSerial, history>>

Slots == {1, 2}

NoRow == [id |-> 0]

Idle ==
  [op |-> "none", pc |-> "idle", user |-> NULL, tokenAddress |-> NULL,
   sessionId |-> NULL, body |-> EmptyBody, tokenOwner |-> "",
   temp |-> NoRow, existing |-> FALSE, logoUrl |-> NULL, status |-> 0,
   result |-> <<>>, file |-> NoFile]

\* The calls of the service that run at a time.
Calls == {1, 2}

NoCall == [op |-> "none", pc |-> "idle", sessionId |-> NULL,
           response |-> "none", result |-> "none"]

\* new MetadataService() in a browser whose localStorage holds no session:
\* sessionId is the memory field, storage the item metadataSessionId, uuid
\* the number of identifiers drawn, linked the identifiers whose link the
\* client saw accepted.
NewClient ==
  [sessionId |-> NULL, storage |-> NULL, uuid |-> 0, linked |-> {},
   calls |-> [c \in Calls |-> NoCall]]

Init ==
  /\ metadataService = NewClient
  /\ now = 0
  /\ tokens = {}
  /\ chainOwner = [c \in ContractAddrs |-> NULL]
  /\ token_metadata = {}
  /\ temporary_metadata = {}
  /\ sessionSerial = 0
  /\ history = <<>>
  /\ req = [p \in Slots |-> Idle]

\* ------------------------------------------------------------- SQL helpers

\* SELECT owner_address FROM tokens WHERE contract_address = $1
TokenRows(addr) == {t \in tokens : t.contract_address = addr}

\* SELECT * FROM token_metadata WHERE token_address = $1
MetadataRows(addr) == {m \in token_metadata : m.token_address = addr}

\* SELECT * FROM temporary_metadata WHERE session_id = $1
SessionRows(sid) == {s \in temporary_metadata : s.session_id = sid}

\* The descriptive columns of a token_metadata row.
Desc(m) ==
  [name |-> m.name, symbol |-> m.symbol, description |-> m.description,
   logo_url |-> m.logo_url, website_url |-> m.website_url,
   twitter_url |-> m.twitter_url, telegram_url |-> m.telegram_url,
   discord_url |-> m.discord_url, whitepaper_url |-> m.whitepaper_url,
   github_url |-> m.github_url, tags |-> m.tags]

\* The same columns without the logo (a session holds logo_data, not a URL).
DescNoLogo(m) ==
  [name |-> m.name, symbol |-> m.symbol, description |-> m.description,
   website_url |-> m.website_url,
   twitter_url |-> m.twitter_url, telegram_url |-> m.telegram_url,
   discord_url |-> m.discord_url, whitepaper_url |-> m.whitepaper_url,
   github_url |-> m.github_url, tags |-> m.tags]

\* COALESCE($4, logo_url)
Coalesce(a, b) == IF a # NULL THEN a ELSE b

\* Mutant: the trigger stores the history row and forgets the counter.
TrackMetadataUpdates_NoIncrement(old, new) == new

\* Trigger track_token_metadata_updates (BEFORE UPDATE): the row it returns.
TrackMetadataUpdates(old, new) ==
  [new EXCEPT !.update_count = old.update_count + 1]

\* Mutant: the trigger stores row_to_json(NEW).
HistoryRow_StoresNew(old, new) ==
  [token_address |-> old.token_address, updated_by |-> new.last_updated_by,
   previous_data |-> new]

\* Trigger track_token_metadata_updates: the history row it inserts.
HistoryRow(old, new) ==
  [token_address |-> old.token_address, updated_by |-> new.last_updated_by,
   previous_data |-> old]

\* UPDATE token_metadata SET ... WHERE token_address = addr, with both BEFORE
\* UPDATE triggers; set[old] is the row the SET clause makes of old.  The
\* history insert fails on updated_by NOT NULL, and the statement with it.
UpdateMetadataOk(addr, set) ==
  \A old \in MetadataRows(addr) : set[old].last_updated_by # NULL

\* Mutant: the UPDATE runs without the history insert.
UpdateMetadata_NoHistory(addr, set) ==
  /\ token_metadata' =
       {IF m.token_address = addr
          THEN TrackMetadataUpdates(m, set[m])
          ELSE m : m \in token_metadata}
  /\ history' = history

\* The UPDATE itself: the rows it leaves and the history row it adds.
UpdateMetadata(addr, set) ==
  /\ token_metadata' =
       {IF m.token_address = addr
          THEN TrackMetadataUpdates(m, set[m])
          ELSE m : m \in token_metadata}
  /\ history' =
       IF MetadataRows(addr) = {} THEN history
       ELSE LET old == CHOOSE m \in MetadataRows(addr) : TRUE
            IN Append(history, HistoryRow(old, set[old]))

\* Mutant: token_address is not UNIQUE.
InsertMetadataOk_NoUnique(row) == TokenRows(row.token_address) # {}

\* INSERT INTO token_metadata: token_address is UNIQUE and references tokens.
InsertMetadataOk(row) ==
  /\ MetadataRows(row.token_address) = {}
  /\ TokenRows(row.token_address) # {}


\* ------------------------------------------------------------ environment

\* Time passes, a day and a half at a time.  Only temporary_metadata reads
\* the clock, and only against expires_at: time that passes while no stored
\* session is still to expire changes no outcome and is left out.
Tick ==
  /\ now < MaxTicks * 36
  /\ \E s \in temporary_metadata : s.expires_at >= now
  /\ now' = now + 36
  /\ UNCHANGED <<metadataService, tokens, chainOwner, db, req>>

\* Trigger link_metadata_on_token_creation (AFTER INSERT ON tokens): the row
\* it inserts into token_metadata from the session t of the new token's owner.
LinkTemporaryMetadataRow(new, t) ==
  [token_address |-> new.contract_address,
   name |-> t.name, symbol |-> t.symbol, description |-> t.description,
   logo_url |-> NULL,
   website_url |-> t.website_url, twitter_url |-> t.twitter_url,
   telegram_url |-> t.telegram_url, discord_url |-> t.discord_url,
   whitepaper_url |-> t.whitepaper_url, github_url |-> t.github_url,
   tags |-> t.tags, verified |-> FALSE,
   last_updated_by |-> new.owner_address, update_count |-> 1]

\* Trigger link_metadata_on_token_creation: the sessions its SELECT and its
\* DELETE match.
LinkTemporaryMetadataMatches(new) ==
  {t \in temporary_metadata :
     t.creator_address = new.owner_address /\ t.expires_at > now}

\* The token registry records a deployed token; the trigger runs in the same
\* statement.  ORDER BY created_at DESC LIMIT 1 takes the row inserted last:
\* created_at is the insertion time, so its order is the order of the ids.
InsertToken(A) ==
  \E c \in {toLowerCase(a) : a \in A}, o \in OwnerAddrs :
    LET new == [contract_address |-> c, owner_address |-> o]
        matches == LinkTemporaryMetadataMatches(new)
        newest == {t \in matches : \A u \in matches : u.id <= t.id}
    IN /\ TokenRows(c) = {}
       /\ tokens' = tokens \cup {new}
       /\ chainOwner' = [chainOwner EXCEPT ![c] = toLowerCase(o)]
       /\ IF matches = {}
            THEN token_metadata' = token_metadata
            ELSE \E t \in newest :
                   token_metadata' =
                     token_metadata \cup {LinkTemporaryMetadataRow(new, t)}
       /\ temporary_metadata' = temporary_metadata \ matches
       /\ UNCHANGED <<metadataService, now, sessionSerial, history, req>>

\* transferOwnership on the deployed contract: owner() now returns o.
TransferOwnership ==
  \E c \in ContractAddrs, o \in ChainOwners :
    /\ chainOwner[c] # NULL
    /\ chainOwner[c] # o
    /\ chainOwner' = [chainOwner EXCEPT ![c] = o]
    /\ UNCHANGED <<metadataService, now, tokens, db, req>>

\* The token registry catches up with the chain and rewrites owner_address.
SyncTokenOwner ==
  \E t \in tokens :
    /\ toLowerCase(t.owner_address) # chainOwner[t.contract_address]
    /\ tokens' = (tokens \ {t}) \cup
                   {[t EXCEPT !.owner_address = chainOwner[t.contract_address]]}
    /\ UNCHANGED <<metadataService, now, chainOwner, db, req>>

\* cleanup_expired_metadata(): DELETE FROM temporary_metadata WHERE expires_at < now
CleanupExpiredMetadata ==
  /\ \E s \in temporary_metadata : s.expires_at < now
  /\ temporary_metadata' = {s \in temporary_metadata : ~(s.expires_at < now)}
  /\ UNCHANGED <<metadataService, now, tokens, chainOwner, token_metadata, sessionSerial, history, req>>


\* -------------------------------------------------------- request handlers

\* A slot is free before its first request and after a response.
Free(p) == req[p].pc \in {"idle", "done"}

\* Requests in flight in the other slots.
InFlight(p) == {q \in Slots \ {p} : ~Free(q)}

\* The guards' caps: a request that may UPDATE token_metadata starts only
\* while the history has room for it and for the requests already running.
HistoryRoom(p) ==
  Len(history)
    + Cardinality({q \in InFlight(p) :
                     req[q].pc \in {"link_temp", "link_existing", "link_put",
                                    "link_write", "create_existing",
                                    "create_write", "put_write", "upload_put",
                                    "upload_write"}})
    < MaxHistory

\* res.status(code).json(...): the handler returns.
Respond(r, code) ==
  [r EXCEPT !.pc = "done", !.status = code, !.body = EmptyBody,
            !.logoUrl = NULL, !.temp = [id |-> r.temp.id]]

\* Mutant: the handler finds the token and does not compare its owner.
OwnershipStatus_OwnerUnchecked(addr, userAddress) ==
  IF TokenRows(addr) = {} THEN 404 ELSE 0

\* The ownership check every gated handler makes: the handler's status after
\*   SELECT owner_address FROM tokens WHERE contract_address = $1
\* for the lowercased address, 0 when the caller may go on.
OwnershipStatus(addr, userAddress) ==
  IF TokenRows(addr) = {} THEN 404
  ELSE IF \E t \in TokenRows(addr) : toLowerCase(t.owner_address) # userAddress
    THEN 403
    ELSE 0

\* tokenResult.rows[0].owner_address.toLowerCase()
TokenOwner(addr) ==
  IF TokenRows(addr) = {} THEN ""
  ELSE toLowerCase((CHOOSE t \in TokenRows(addr) : TRUE).owner_address)

\* The slot after the ownership check, going on to pc `next` when it passes.
AfterOwnership(r, next) ==
  LET addr == toLowerCase(r.tokenAddress)
      code == OwnershipStatus(addr, r.user)
      r1 == [r EXCEPT !.tokenOwner = TokenOwner(addr)]
  IN IF code # 0 THEN Respond(r1, code) ELSE [r1 EXCEPT !.pc = next]

\* https://${cid}.ipfs.dweb.link/token-logo-${tokenAddress.toLowerCase()}.png
IpfsUrl(addr) ==
  CASE addr = "0xt1" -> "https://cid.ipfs.dweb.link/token-logo-0xt1.png"
    [] addr = "0xt2" -> "https://cid.ipfs.dweb.link/token-logo-0xt2.png"
    [] OTHER -> "https://cid.ipfs.dweb.link/token-logo"

\* ${req.protocol}://${req.get('host')}/uploads/${req.file.filename}
LocalUrl == "http://host/uploads/logo-1.png"

\* ---- POST /temporary

\* The session row the INSERT makes.
TemporaryInsertRow(r) ==
  [id |-> sessionSerial + 1, session_id |-> r.sessionId,
   creator_address |-> r.user,
   name |-> r.body.name, symbol |-> r.body.symbol,
   description |-> r.body.description, logo_data |-> r.body.logoData,
   website_url |-> r.body.websiteUrl, twitter_url |-> r.body.twitterUrl,
   telegram_url |-> r.body.telegramUrl, discord_url |-> r.body.discordUrl,
   whitepaper_url |-> r.body.whitepaperUrl, github_url |-> r.body.githubUrl,
   tags |-> r.body.tags, expires_at |-> now + Interval24h]

\* The session row the UPDATE makes of s.
TemporaryUpdateSet(s, r) ==
  [s EXCEPT !.name = r.body.name, !.symbol = r.body.symbol,
            !.description = r.body.description, !.logo_data = r.body.logoData,
            !.website_url = r.body.websiteUrl, !.twitter_url = r.body.twitterUrl,
            !.telegram_url = r.body.telegramUrl, !.discord_url = r.body.discordUrl,
            !.whitepaper_url = r.body.whitepaperUrl, !.github_url = r.body.githubUrl,
            !.tags = r.body.tags, !.expires_at = now + Interval24h]

\* The guards' cap: a request that may INSERT a session starts only while the
\* serial has room for it and for the inserting requests already running.
SerialRoom(p) ==
  sessionSerial
    + Cardinality({q \in InFlight(p) :
                     req[q].pc = "temporary_write" /\ ~req[q].existing})
    < MaxSessionSerial

\* The request arrives with a body of B;
\* SELECT * FROM temporary_metadata WHERE session_id = $1
TemporarySelectOf(p, S, B) ==
  /\ Free(p)
  /\ \E u \in Callers, sid \in S, b \in B :
       LET r == [Idle EXCEPT !.op = "temporary", !.user = toLowerCase(u),
                             !.sessionId = sid, !.body = b]
       IN /\ SessionRows(sid) = {} => SerialRoom(p)
          /\ req' = [req EXCEPT ![p] =
                    IF sid = NULL THEN Respond(r, 400)
                    ELSE [r EXCEPT !.pc = "temporary_write",
                                   !.existing = SessionRows(sid) # {}]]
  /\ UNCHANGED <<metadataService, now, tokens, chainOwner, db>>

\* The same for the bodies the other handlers take too.
TemporarySelect(p, S) == TemporarySelectOf(p, S, Bodies)

\* UPDATE temporary_metadata ... WHERE session_id = $12, or INSERT INTO
\* temporary_metadata (session_id is UNIQUE: a second row throws, caught as 500).
TemporaryWrite(p) ==
  LET r == req[p] IN
  /\ r.pc = "temporary_write"
  /\ IF r.existing
       THEN /\ temporary_metadata' =
                 {IF s.session_id = r.sessionId THEN TemporaryUpdateSet(s, r) ELSE s
                    : s \in temporary_metadata}
            /\ sessionSerial' = sessionSerial
            /\ req' = [req EXCEPT ![p] = Respond(r, 200)]
       ELSE /\ sessionSerial' = sessionSerial + 1
            /\ IF SessionRows(r.sessionId) = {}
                 THEN /\ temporary_metadata' =
                           temporary_metadata \cup {TemporaryInsertRow(r)}
                      /\ req' = [req EXCEPT ![p] = Respond(r, 200)]
                 ELSE /\ temporary_metadata' = temporary_metadata
                      /\ req' = [req EXCEPT ![p] = Respond(r, 500)]
  /\ UNCHANGED <<metadataService, now, tokens, chainOwner, token_metadata, history>>


\* ---- POST /link

\* Mutant: the session is looked up by its id alone.
LinkSessionRows_AnyCreator(sid, userAddress) == SessionRows(sid)

\* SELECT * FROM temporary_metadata WHERE session_id = $1 AND creator_address = $2
LinkSessionRows(sid, userAddress) ==
  {s \in SessionRows(sid) : s.creator_address = userAddress}

\* Mutant: the UPDATE writes the logo parameter as it is, NULL included.
LinkUpdateSet_ClearsLogo(old, r) ==
  [old EXCEPT !.name = r.temp.name, !.symbol = r.temp.symbol,
              !.description = r.temp.description,
              !.logo_url = r.logoUrl,
              !.website_url = r.temp.website_url, !.twitter_url = r.temp.twitter_url,
              !.telegram_url = r.temp.telegram_url, !.discord_url = r.temp.discord_url,
              !.whitepaper_url = r.temp.whitepaper_url,
              !.github_url = r.temp.github_url, !.tags = r.temp.tags,
              !.last_updated_by = r.user, !.update_count = old.update_count + 1]

\* The row the UPDATE of the link handler makes of old.
LinkUpdateSet(old, r) ==
  [old EXCEPT !.name = r.temp.name, !.symbol = r.temp.symbol,
              !.description = r.temp.description,
              !.logo_url = Coalesce(r.logoUrl, old.logo_url),
              !.website_url = r.temp.website_url, !.twitter_url = r.temp.twitter_url,
              !.telegram_url = r.temp.telegram_url, !.discord_url = r.temp.discord_url,
              !.whitepaper_url = r.temp.whitepaper_url,
              !.github_url = r.temp.github_url, !.tags = r.temp.tags,
              !.last_updated_by = r.user, !.update_count = old.update_count + 1]

\* The row the INSERT of the link handler makes.
LinkInsertRow(r) ==
  [token_address |-> toLowerCase(r.tokenAddress),
   name |-> r.temp.name, symbol |-> r.temp.symbol,
   description |-> r.temp.description, logo_url |-> r.logoUrl,
   website_url |-> r.temp.website_url, twitter_url |-> r.temp.twitter_url,
   telegram_url |-> r.temp.telegram_url, discord_url |-> r.temp.discord_url,
   whitepaper_url |-> r.temp.whitepaper_url, github_url |-> r.temp.github_url,
   tags |-> r.temp.tags, verified |-> FALSE,
   last_updated_by |-> r.user, update_count |-> 1]

\* The request arrives; SELECT owner_address FROM tokens ...
LinkToken(p, A, S) ==
  /\ Free(p)
  /\ HistoryRoom(p)
  /\ \E u \in Callers, a \in A, sid \in S :
       LET r == [Idle EXCEPT !.op = "link", !.user = toLowerCase(u),
                             !.tokenAddress = a, !.sessionId = sid]
       IN req' = [req EXCEPT ![p] =
                    IF a = NULL \/ sid = NULL THEN Respond(r, 400)
                    ELSE AfterOwnership(r, "link_temp")]
  /\ UNCHANGED <<metadataService, now, tokens, chainOwner, db>>

\* Mutant: the lookup takes the session out of the table (DELETE ... RETURNING)
\* before the creator is compared.
LinkTemp_ConsumeOnLookup(p) ==
  LET r == req[p]
      rows == {s \in SessionRows(r.sessionId) : s.creator_address = r.user}
  IN /\ r.pc = "link_temp"
     /\ temporary_metadata' =
          {s \in temporary_metadata : s.session_id # r.sessionId}
     /\ req' = [req EXCEPT ![p] =
                  IF rows = {} THEN Respond(r, 404)
                  ELSE [r EXCEPT !.pc = "link_existing",
                                 !.temp = CHOOSE s \in rows : TRUE]]
     /\ UNCHANGED <<metadataService, now, tokens, chainOwner, token_metadata, sessionSerial, history>>

\* SELECT * FROM temporary_metadata WHERE session_id = $1 AND creator_address = $2
LinkTemp(p) ==
  LET r == req[p]
      rows == LinkSessionRows(r.sessionId, r.user)
  IN /\ r.pc = "link_temp"
     /\ req' = [req EXCEPT ![p] =
                  IF rows = {} THEN Respond(r, 404)
                  ELSE [r EXCEPT !.pc = "link_existing",
                                 !.temp = CHOOSE s \in rows : TRUE]]
     /\ UNCHANGED <<metadataService, now, tokens, chainOwner, db>>

\* SELECT * FROM token_metadata WHERE token_address = $1, then the logo: with
\* logo_data and a Web3.Storage client the handler awaits client.put; without
\* either (or when writing the temporary file throws) it goes on with no logo.
LinkExisting(p) ==
  LET r == req[p]
      r1 == [r EXCEPT !.existing = MetadataRows(toLowerCase(r.tokenAddress)) # {}]
  IN /\ r.pc = "link_existing"
     /\ \E client \in BOOLEAN :
          req' = [req EXCEPT ![p] =
                    IF r.temp.logo_data # NULL /\ client
                      THEN [r1 EXCEPT !.pc = "link_put"]
                      ELSE [r1 EXCEPT !.pc = "link_write"]]
     /\ UNCHANGED <<metadataService, now, tokens, chainOwner, db>>

\* await client.put(files): a CID, or a throw that the handler swallows.
LinkPut(p) ==
  LET r == req[p] IN
  /\ r.pc = "link_put"
  /\ \E stored \in BOOLEAN :
       req' = [req EXCEPT ![p] =
                 [r EXCEPT !.pc = "link_write",
                           !.logoUrl = IF stored
                                         THEN IpfsUrl(toLowerCase(r.tokenAddress))
                                         ELSE NULL]]
  /\ UNCHANGED <<metadataService, now, tokens, chainOwner, db>>

\* UPDATE token_metadata ... or INSERT INTO token_metadata ...
LinkWrite(p) ==
  LET r == req[p]
      addr == toLowerCase(r.tokenAddress)
      set == [m \in MetadataRows(addr) |-> LinkUpdateSet(m, r)]
      row == LinkInsertRow(r)
  IN /\ r.pc = "link_write"
     /\ IF r.existing
          THEN /\ UpdateMetadata(addr, set)
               /\ req' = [req EXCEPT ![p] = [r EXCEPT !.pc = "link_delete"]]
          ELSE /\ history' = history
               /\ IF InsertMetadataOk(row)
                    THEN /\ token_metadata' = token_metadata \cup {row}
                         /\ req' = [req EXCEPT ![p] = [r EXCEPT !.pc = "link_delete"]]
                    ELSE /\ token_metadata' = token_metadata
                         /\ req' = [req EXCEPT ![p] = Respond(r, 500)]
     /\ UNCHANGED <<metadataService, now, tokens, chainOwner, temporary_metadata, sessionSerial>>

\* Mutant: the handler answers without deleting the session.
LinkDelete_KeepsSession(p) ==
  LET r == req[p] IN
  /\ r.pc = "link_delete"
  /\ req' = [req EXCEPT ![p] = Respond(r, 200)]
  /\ UNCHANGED <<metadataService, now, tokens, chainOwner, db>>

\* DELETE FROM temporary_metadata WHERE session_id = $1
LinkDelete(p) ==
  LET r == req[p] IN
  /\ r.pc = "link_delete"
  /\ temporary_metadata' =
       {s \in temporary_metadata : s.session_id # r.sessionId}
  /\ req' = [req EXCEPT ![p] = Respond(r, 200)]
  /\ UNCHANGED <<metadataService, now, tokens, chainOwner, token_metadata, sessionSerial, history>>

\* ---- POST /

\* The row the UPDATE of the create handler makes of old.
CreateUpdateSet(old, r) ==
  [old EXCEPT !.name = r.body.name, !.symbol = r.body.symbol,
              !.description = r.body.description, !.logo_url = r.body.logoUrl,
              !.website_url = r.body.websiteUrl, !.twitter_url = r.body.twitterUrl,
              !.telegram_url = r.body.telegramUrl, !.discord_url = r.body.discordUrl,
              !.whitepaper_url = r.body.whitepaperUrl,
              !.github_url = r.body.githubUrl, !.tags = r.body.tags,
              !.last_updated_by = r.user, !.update_count = old.update_count + 1]

\* Mutant: the INSERT leaves update_count to the column default.
CreateInsertRow_CountDefault(r) ==
  [token_address |-> toLowerCase(r.tokenAddress),
   name |-> r.body.name, symbol |-> r.body.symbol,
   description |-> r.body.description, logo_url |-> r.body.logoUrl,
   website_url |-> r.body.websiteUrl, twitter_url |-> r.body.twitterUrl,
   telegram_url |-> r.body.telegramUrl, discord_url |-> r.body.discordUrl,
   whitepaper_url |-> r.body.whitepaperUrl, github_url |-> r.body.githubUrl,
   tags |-> r.body.tags, verified |-> FALSE,
   last_updated_by |-> r.user, update_count |-> 0]

\* The row the INSERT of the create handler makes.
CreateInsertRow(r) ==
  [token_address |-> toLowerCase(r.tokenAddress),
   name |-> r.body.name, symbol |-> r.body.symbol,
   description |-> r.body.description, logo_url |-> r.body.logoUrl,
   website_url |-> r.body.websiteUrl, twitter_url |-> r.body.twitterUrl,
   telegram_url |-> r.body.telegramUrl, discord_url |-> r.body.discordUrl,
   whitepaper_url |-> r.body.whitepaperUrl, github_url |-> r.body.githubUrl,
   tags |-> r.body.tags, verified |-> FALSE,
   last_updated_by |-> r.user, update_count |-> 1]

\* The request arrives with a body of B; with a tokenAddress, the ownership
\* check.
CreateTokenOf(p, A, B) ==
  /\ Free(p)
  /\ HistoryRoom(p)
  /\ \E u \in Callers, a \in A, b \in B :
       LET r == [Idle EXCEPT !.op = "create", !.user = toLowerCase(u),
                             !.tokenAddress = a, !.body = b]
       IN req' = [req EXCEPT ![p] =
                    IF a # NULL THEN AfterOwnership(r, "create_existing")
                    ELSE [r EXCEPT !.pc = "create_existing"]]
  /\ UNCHANGED <<metadataService, now, tokens, chainOwner, db>>

\* The same for the bodies the other handlers take too.
CreateToken(p, A) == CreateTokenOf(p, A, Bodies)

\* SELECT * FROM token_metadata WHERE token_address = $1; without a
\* tokenAddress, metadata.tokenAddress.toLowerCase() throws, caught as 500.
CreateExisting(p) ==
  LET r == req[p] IN
  /\ r.pc = "create_existing"
  /\ req' = [req EXCEPT ![p] =
               IF r.tokenAddress = NULL THEN Respond(r, 500)
               ELSE [r EXCEPT !.pc = "create_write",
                              !.existing =
                                MetadataRows(toLowerCase(r.tokenAddress)) # {}]]
  /\ UNCHANGED <<metadataService, now, tokens, chainOwner, db>>

\* UPDATE token_metadata ... or INSERT INTO token_metadata ...
CreateWrite(p) ==
  LET r == req[p]
      addr == toLowerCase(r.tokenAddress)
      set == [m \in MetadataRows(addr) |-> CreateUpdateSet(m, r)]
      row == CreateInsertRow(r)
  IN /\ r.pc = "create_write"
     /\ IF r.existing
          THEN /\ UpdateMetadata(addr, set)
               /\ req' = [req EXCEPT ![p] = Respond(r, 200)]
          ELSE /\ history' = history
               /\ IF InsertMetadataOk(row)
                    THEN /\ token_metadata' = token_metadata \cup {row}
                         /\ req' = [req EXCEPT ![p] = Respond(r, 200)]
                    ELSE /\ token_metadata' = token_metadata
                         /\ req' = [req EXCEPT ![p] = Respond(r, 500)]
     /\ UNCHANGED <<metadataService, now, tokens, chainOwner, temporary_metadata, sessionSerial>>

\* ---- PUT /:tokenAddress

\* The row the UPDATE of the update handler makes of old.
PutUpdateSet(old, r) ==
  [old EXCEPT !.name = r.body.name, !.symbol = r.body.symbol,
              !.description = r.body.description, !.logo_url = r.body.logoUrl,
              !.website_url = r.body.websiteUrl, !.twitter_url = r.body.twitterUrl,
              !.telegram_url = r.body.telegramUrl, !.discord_url = r.body.discordUrl,
              !.whitepaper_url = r.body.whitepaperUrl,
              !.github_url = r.body.githubUrl, !.tags = r.body.tags]

\* The request arrives with a body of B; the ownership check.
PutTokenOf(p, A, B) ==
  /\ Free(p)
  /\ HistoryRoom(p)
  /\ \E u \in Callers, a \in A, b \in B :
       LET r == [Idle EXCEPT !.op = "put", !.user = toLowerCase(u),
                             !.tokenAddress = a, !.body = b]
       IN req' = [req EXCEPT ![p] = AfterOwnership(r, "put_write")]
  /\ UNCHANGED <<metadataService, now, tokens, chainOwner, db>>

\* The same for the bodies the other handlers take too.
PutToken(p, A) == PutTokenOf(p, A, Bodies)

\* UPDATE token_metadata ... WHERE token_address = $12 RETURNING *
PutWrite(p) ==
  LET r == req[p]
      addr == toLowerCase(r.tokenAddress)
      set == [m \in MetadataRows(addr) |-> PutUpdateSet(m, r)]
  IN /\ r.pc = "put_write"
     /\ IF ~UpdateMetadataOk(addr, set)
          THEN /\ UNCHANGED <<token_metadata, history>>
               /\ req' = [req EXCEPT ![p] = Respond(r, 500)]
          ELSE /\ UpdateMetadata(addr, set)
               /\ req' = [req EXCEPT ![p] =
                            Respond(r, IF MetadataRows(addr) = {} THEN 404 ELSE 200)]
     /\ UNCHANGED <<metadataService, now, tokens, chainOwner, temporary_metadata, sessionSerial>>


\* ---- POST /upload-logo

\* Mutant: the UPDATE leaves logo_url as it was.
UploadUpdateSet_KeepsLogo(old, r) ==
  [old EXCEPT !.last_updated_by = r.user]

\* The row the UPDATE of the upload handler makes of old.
UploadUpdateSet(old, r) ==
  [old EXCEPT !.logo_url = r.logoUrl, !.last_updated_by = r.user]

\* limits: { fileSize: 1024 * 1024 }
fileSize == 1024 * 1024

\* fileFilter: const allowedTypes = [...]
allowedTypes == {"image/jpeg", "image/png", "image/webp"}

\* Mutant: the size limit is not applied.
MulterSingle_NoLimit(f) ==
  IF f = NoFile THEN "none"
  ELSE IF f.mimetype \notin allowedTypes THEN "error"
  ELSE "file"

\* upload.single('logo'): "file" when req.file is set, "none" when the
\* request has no such part, "error" when the fileFilter or the size limit
\* passes an error to next(err) and the handler never runs.
MulterSingle(f) ==
  IF f = NoFile THEN "none"
  ELSE IF f.mimetype \notin allowedTypes THEN "error"
  ELSE IF f.size > fileSize THEN "error"
  ELSE "file"

\* The router registers no error-handling middleware: an error passed to
\* next(err) leaves it and is answered by Express's default handler, with
\* err.status (unset on multer's errors) or 500.
UnhandledErrorStatus == 500

\* The request arrives; upload.single('logo') takes the file or passes its
\* error on; the handler answers 400 without a file; with a tokenAddress,
\* the ownership check; then getWeb3StorageClient(): with a client and a
\* tokenAddress the handler awaits client.put; without a client, or when
\* building the file name of no tokenAddress throws, it takes the local URL.
UploadSingle(p, A, F) ==
  /\ Free(p)
  /\ \E u \in Callers, a \in A, f \in F, client \in BOOLEAN :
       LET r == [Idle EXCEPT !.op = "upload", !.user = toLowerCase(u),
                             !.tokenAddress = a, !.file = f]
           calls == client /\ a # NULL
           r1 == [r EXCEPT !.logoUrl = IF calls THEN "" ELSE LocalUrl]
           next == IF calls THEN "upload_put" ELSE "upload_write"
       IN /\ MulterSingle(f) = "file" => HistoryRoom(p)
          /\ req' = [req EXCEPT ![p] =
                       CASE MulterSingle(f) = "error" ->
                              Respond(r, UnhandledErrorStatus)
                         [] MulterSingle(f) = "none" -> Respond(r, 400)
                         [] OTHER ->
                              IF a # NULL THEN AfterOwnership(r1, next)
                              ELSE [r1 EXCEPT !.pc = next]]
  /\ UNCHANGED <<metadataService, now, tokens, chainOwner, db>>

\* The request arrives with an accepted file.
UploadToken(p, A) == UploadSingle(p, A, AcceptedFiles)

\* await client.put(files): a CID, or a throw and the local URL instead.
UploadPut(p) ==
  LET r == req[p] IN
  /\ r.pc = "upload_put"
  /\ \E stored \in BOOLEAN :
       req' = [req EXCEPT ![p] =
                 [r EXCEPT !.pc = "upload_write",
                           !.logoUrl = IF stored
                                         THEN IpfsUrl(toLowerCase(r.tokenAddress))
                                         ELSE LocalUrl]]
  /\ UNCHANGED <<metadataService, now, tokens, chainOwner, db>>

\* UPDATE token_metadata SET logo_url = $1, ..., last_updated_by = $3
\* when a tokenAddress came; res.json({ logoUrl })
UploadWrite(p) ==
  LET r == req[p]
      addr == toLowerCase(r.tokenAddress)
      set == [m \in MetadataRows(addr) |-> UploadUpdateSet(m, r)]
  IN /\ r.pc = "upload_write"
     /\ IF r.tokenAddress # NULL
          THEN UpdateMetadata(addr, set)
          ELSE UNCHANGED <<token_metadata, history>>
     /\ req' = [req EXCEPT ![p] =
                  Respond([r EXCEPT !.result = <<r.logoUrl>>], 200)]
     /\ UNCHANGED <<metadataService, now, tokens, chainOwner, temporary_metadata, sessionSerial>>

\* ---- the metadata form of the web client

\* String.prototype.startsWith('https://') on the URLs above.
startsWithHttps(url) ==
  url \in {"https://foo.io", "https://x.com/bar", "https://cdn.bar/logo.png",
           "https://rpc.example"}

\* MetadataService.validateUrl
validateUrl(url) ==
  IF url = NULL \/ url = "" THEN TRUE ELSE startsWithHttps(url)

\* validateForm of the form: the six link fields (the descriptions above are
\* shorter than 300 characters).
validateForm(b) ==
  \A value \in {b.websiteUrl, b.twitterUrl, b.telegramUrl, b.discordUrl,
                 b.whitepaperUrl, b.githubUrl} :
    ~(value # NULL /\ value # "" /\ ~validateUrl(value))

\* handleSubmit of the form without a logo file: nothing is sent unless
\* validateForm() holds; then updateTokenMetadata (PUT) for a record the form
\* was opened with, saveTokenMetadata (POST /) otherwise.
FormSubmit(p, A, B) ==
  \E b \in B :
    /\ validateForm(b)
    /\ \/ PutTokenOf(p, A, {b})
       \/ CreateTokenOf(p, A, {b})

\* ---- MetadataService of the web client

\* uuidv4(): an identifier never drawn before.
uuidv4(n) == ToString(n)

\* createSession()
createSession(cl) ==
  [cl EXCEPT !.uuid = cl.uuid + 1,
             !.storage = uuidv4(cl.uuid + 1),
             !.sessionId = uuidv4(cl.uuid + 1)]

\* getSessionId()
getSessionId(cl) ==
  IF cl.sessionId = NULL THEN createSession(cl) ELSE cl

\* The guards' cap: an identifier is drawn only while MaxUuid allows.
UuidRoom ==
  metadataService.sessionId = NULL => metadataService.uuid < MaxUuid

\* constructor(), on a page load: the memory field is read from localStorage;
\* the calls of the page before are gone.
Construct ==
  /\ metadataService' =
       [metadataService EXCEPT !.sessionId = metadataService.storage,
                               !.calls = [c \in Calls |-> NoCall]]
  /\ UNCHANGED <<now, tokens, chainOwner, db, req>>

\* A caller asks getSessionId().
GetSessionId ==
  /\ UuidRoom
  /\ metadataService' = getSessionId(metadataService)
  /\ UNCHANGED <<now, tokens, chainOwner, db, req>>

\* saveTemporaryMetadata up to its await fetch(.../temporary): the body
\* carries getSessionId().
SaveSend(c) ==
  /\ metadataService.calls[c].pc \in {"idle", "done"}
  /\ UuidRoom
  /\ LET cl == getSessionId(metadataService)
     IN metadataService' =
          [cl EXCEPT !.calls[c] =
             [NoCall EXCEPT !.op = "save", !.pc = "sent",
                            !.sessionId = cl.sessionId]]
  /\ UNCHANGED <<now, tokens, chainOwner, db, req>>

\* The fetch of saveTemporaryMetadata settles: the saved metadata for an ok
\* response, an AppError for any other response and for a fetch that throws.
SaveReturn(c) ==
  /\ metadataService.calls[c].op = "save" /\ metadataService.calls[c].pc = "sent"
  /\ \E response \in {"ok", "not ok", "throws"} :
       metadataService' =
         [metadataService EXCEPT !.calls[c].pc = "done",
                                 !.calls[c].response = response,
                                 !.calls[c].result =
                                    IF response = "ok" THEN "metadata"
                                    ELSE "AppError"]
  /\ UNCHANGED <<now, tokens, chainOwner, db, req>>

\* linkTemporaryMetadata up to its await fetch(.../link); without a session
\* it returns false before any fetch.
LinkSend(c) ==
  /\ metadataService.calls[c].pc \in {"idle", "done"}
  /\ metadataService' =
       [metadataService EXCEPT !.calls[c] =
          IF metadataService.sessionId = NULL
            THEN [NoCall EXCEPT !.op = "link", !.pc = "done",
                                !.result = "false"]
            ELSE [NoCall EXCEPT !.op = "link", !.pc = "sent",
                                !.sessionId = metadataService.sessionId]]
  /\ UNCHANGED <<now, tokens, chainOwner, db, req>>

\* Mutant: an accepted link removes the localStorage item only.
LinkResponse_KeepsMemory(cl, c, response) ==
  IF response = "ok"
    THEN [cl EXCEPT !.storage = NULL,
                    !.linked = cl.linked \cup {cl.calls[c].sessionId},
                    !.calls[c].pc = "done", !.calls[c].response = response,
                    !.calls[c].result = "true"]
    ELSE [cl EXCEPT !.calls[c].pc = "done", !.calls[c].response = response,
                    !.calls[c].result = "false"]

\* linkTemporaryMetadata after its fetch: an ok response clears the session
\* in localStorage and in memory and returns true; any other response and a
\* fetch that throws return false.
LinkResponse(cl, c, response) ==
  IF response = "ok"
    THEN [cl EXCEPT !.storage = NULL, !.sessionId = NULL,
                    !.linked = cl.linked \cup {cl.calls[c].sessionId},
                    !.calls[c].pc = "done", !.calls[c].response = response,
                    !.calls[c].result = "true"]
    ELSE [cl EXCEPT !.calls[c].pc = "done", !.calls[c].response = response,
                    !.calls[c].result = "false"]

\* The fetch of linkTemporaryMetadata settles.
LinkReturn(c) ==
  /\ metadataService.calls[c].op = "link" /\ metadataService.calls[c].pc = "sent"
  /\ \E response \in {"ok", "not ok", "throws"} :
       metadataService' = LinkResponse(metadataService, c, response)
  /\ UNCHANGED <<now, tokens, chainOwner, db, req>>

\* ---- the remote store

\* client.put(files) of Web3.Storage never settles: the await of the upload
\* or of the link does not resume, and neither handler sets a timer.
PutNeverReturns(p) ==
  LET r == req[p] IN
  /\ r.pc \in {"upload_put", "link_put"}
  /\ req' = [req EXCEPT ![p] =
               [r EXCEPT !.pc = IF r.pc = "upload_put" THEN "upload_hung"
                                ELSE "link_hung"]]
  /\ UNCHANGED <<metadataService, now, tokens, chainOwner, db>>

\* ---- POST /:tokenAddress/verify

\* The allow-list, lowercased.
adminAddresses == {toLowerCase(a) : a \in ADMIN_ADDRESSES}

\* Mutant: every authenticated caller passes.
IsAdmin_Anyone(userAddress) == TRUE

\* adminAddresses.includes(userAddress)
IsAdmin(userAddress) == userAddress \in adminAddresses

\* The row the UPDATE of the verify handler makes of old.
VerifyUpdateSet(old) == [old EXCEPT !.verified = TRUE]

\* The request arrives; the allow-list; UPDATE token_metadata SET verified = true
VerifyUpdate(p, A) ==
  /\ Free(p)
  /\ \E u \in Callers, a \in A :
       LET r == [Idle EXCEPT !.op = "verify", !.user = toLowerCase(u),
                             !.tokenAddress = a]
           addr == toLowerCase(a)
           set == [m \in MetadataRows(addr) |-> VerifyUpdateSet(m)]
       IN IF ~IsAdmin(r.user)
            THEN /\ req' = [req EXCEPT ![p] = Respond(r, 403)]
                 /\ UNCHANGED <<token_metadata, history>>
            ELSE IF ~HistoryRoom(p) THEN FALSE
            ELSE IF ~UpdateMetadataOk(addr, set)
              THEN /\ req' = [req EXCEPT ![p] = Respond(r, 500)]
                   /\ UNCHANGED <<token_metadata, history>>
              ELSE /\ UpdateMetadata(addr, set)
                   /\ req' = [req EXCEPT ![p] =
                                Respond(r, IF MetadataRows(addr) = {}
                                             THEN 404 ELSE 200)]
  /\ UNCHANGED <<metadataService, now, tokens, chainOwner, temporary_metadata, sessionSerial>>

\* ---- GET /:tokenAddress

\* Mutant: the lookup uses the address as it was sent.
GetRows_AsSent(tokenAddress) == MetadataRows(tokenAddress)

\* SELECT * FROM token_metadata WHERE token_address = $1
GetRows(tokenAddress) == MetadataRows(toLowerCase(tokenAddress))

\* What the handler answers: 404, or 200 with result.rows[0].
GetResult(tokenAddress) ==
  LET rows == GetRows(tokenAddress) IN
  IF rows = {} THEN [status |-> 404, result |-> <<>>]
  ELSE [status |-> 200, result |-> <<CHOOSE m \in rows : TRUE>>]

\* The request arrives (no authentication); the SELECT; the response.
GetSelect(p, A) ==
  /\ Free(p)
  /\ \E a \in A :
       LET r == [Idle EXCEPT !.op = "get", !.tokenAddress = a]
           res == GetResult(a)
       IN req' = [req EXCEPT ![p] =
                    [Respond(r, res.status) EXCEPT !.result = res.result]]
  /\ UNCHANGED <<metadataService, now, tokens, chainOwner, db>>

\* ---- GET /:tokenAddress/history

\* Mutant: ORDER BY update_timestamp ASC.
HistoryRowsDesc_Ascending(addr) ==
  SelectSeq(history, LAMBDA h : h.token_address = addr)

\* SELECT * FROM token_metadata_history WHERE token_address = $1
\* ORDER BY update_timestamp DESC.  update_timestamp is the CURRENT_TIMESTAMP
\* of the UPDATE that wrote the row; the UPDATEs run one after another, so
\* the timestamps rise in the order of insertion.
HistoryRowsDesc(addr) ==
  LET rows == SelectSeq(history, LAMBDA h : h.token_address = addr)
  IN [i \in 1..Len(rows) |-> rows[Len(rows) + 1 - i]]

\* The request arrives; the ownership check.
HistoryToken(p, A) ==
  /\ Free(p)
  /\ \E u \in Callers, a \in A :
       LET r == [Idle EXCEPT !.op = "history", !.user = toLowerCase(u),
                             !.tokenAddress = a]
       IN req' = [req EXCEPT ![p] = AfterOwnership(r, "history_select")]
  /\ UNCHANGED <<metadataService, now, tokens, chainOwner, db>>

\* SELECT * FROM token_metadata_history WHERE token_address = $1 ORDER BY ...
HistorySelect(p) ==
  LET r == req[p] IN
  /\ r.pc = "history_select"
  /\ req' = [req EXCEPT ![p] =
               [Respond(r, 200) EXCEPT
                  !.result = HistoryRowsDesc(toLowerCase(r.tokenAddress))]]
  /\ UNCHANGED <<metadataService, now, tokens, chainOwner, db>>

\* ---- verifyTokenOwnership(tokenAddress, walletAddress)

\* The address as ethers returns it from owner(): checksummed, mixed case.
getAddress(s) ==
  CASE s = "0xa" -> "0xA"
    [] s = "0xb" -> "0xB"
    [] OTHER -> s

\* The body of the inner try: "throw" when contract.owner() rejects, when the
\* value it returns has no toLowerCase, or when walletAddress has none.
OwnerCallBody(walletAddress, ownerCall) ==
  IF ownerCall = "throw" \/ ownerCall = NULL \/ walletAddress = NULL
    THEN "throw"
  ELSE IF toLowerCase(ownerCall) = toLowerCase(walletAddress) THEN "true"
  ELSE "false"

\* The inner try with its catch.
OwnerCall(walletAddress, ownerCall) ==
  IF OwnerCallBody(walletAddress, ownerCall) = "throw" THEN "false"
  ELSE OwnerCallBody(walletAddress, ownerCall)

\* The body of the outer try; networks is the network_id of the rows the
\* SELECT found.
OwnershipBody(tokenAddress, walletAddress, networks, rpcUrl, ownerCall) ==
  IF tokenAddress = NULL THEN "throw"
  ELSE IF networks = {} THEN "false"
  ELSE IF (CHOOSE n \in networks : TRUE) = NULL THEN "throw"
  ELSE IF rpcUrl = NULL THEN "false"
  ELSE OwnerCall(walletAddress, ownerCall)

\* Mutant: the function without its outer catch.
verifyTokenOwnership_NoCatch(tokenAddress, walletAddress, networks, rpcUrl, ownerCall) ==
  OwnershipBody(tokenAddress, walletAddress, networks, rpcUrl, ownerCall)

\* What the function resolves to: the outer catch turns a throw into false.
verifyTokenOwnership(tokenAddress, walletAddress, networks, rpcUrl, ownerCall) ==
  IF OwnershipBody(tokenAddress, walletAddress, networks, rpcUrl, ownerCall) = "throw"
    THEN "false"
  ELSE OwnershipBody(tokenAddress, walletAddress, networks, rpcUrl, ownerCall)

\* A call of the function: the row's network_id and the configured URL are
\* any of the inputs, owner() returns the chain's owner or rejects.  The slot
\* keeps the inputs and the value returned.
VerifyTokenOwnershipCall(p, A) ==
  /\ Free(p)
  /\ \E a \in A, w \in WalletAddrs, n \in NetworkIds, url \in RpcUrls,
        rejects \in BOOLEAN :
       LET networks == IF a = NULL \/ TokenRows(toLowerCase(a)) = {}
                         THEN {} ELSE {n}
           ownerCall == IF rejects \/ a = NULL THEN "throw"
                        ELSE getAddress(chainOwner[toLowerCase(a)])
           r == [Idle EXCEPT !.op = "verifyTokenOwnership",
                             !.tokenAddress = a, !.user = w]
       IN req' = [req EXCEPT ![p] =
                    [r EXCEPT !.pc = "done",
                              !.result =
                                <<[networks |-> networks, rpcUrl |-> url,
                                   ownerCall |-> ownerCall,
                                   returned |->
                                     verifyTokenOwnership(a, w, networks, url,
                                                          ownerCall)]>>]]
  /\ UNCHANGED <<metadataService, now, tokens, chainOwner, db>>

\* ---------------------------------------------------------- specifications

\* The whole router, one request at a time on one token, with the
\* environment between the statements of a request.
Next ==
  \/ Tick
  \/ InsertToken(OneAddr)
  \/ TransferOwnership
  \/ SyncTokenOwner
  \/ CleanupExpiredMetadata
  \/ TemporarySelect(1, OneSession)
  \/ TemporaryWrite(1)
  \/ LinkToken(1, OneAddr, OneSession)
  \/ LinkTemp(1)
  \/ LinkExisting(1)
  \/ LinkPut(1)
  \/ LinkWrite(1)
  \/ LinkDelete(1)
  \/ CreateToken(1, OneAddr)
  \/ CreateExisting(1)
  \/ CreateWrite(1)
  \/ PutToken(1, OneAddr)
  \/ PutWrite(1)
  \/ UploadToken(1, OneAddr)
  \/ UploadPut(1)
  \/ UploadWrite(1)
  \/ HistoryToken(1, OneAddr)
  \/ HistorySelect(1)
  \/ VerifyUpdate(1, OneAddr)
  \/ GetSelect(1, AddrVariants)

Spec == Init /\ [][Next]_vars

\* The direct edits of stored metadata.
NextEdit ==
  \/ InsertToken(OneAddr)
  \/ TransferOwnership
  \/ SyncTokenOwner
  \/ CreateToken(1, OneAddr)
  \/ CreateExisting(1)
  \/ CreateWrite(1)
  \/ PutToken(1, OneAddr)
  \/ PutWrite(1)
  \/ UploadToken(1, OneAddr)
  \/ UploadPut(1)
  \/ UploadWrite(1)
  \/ HistoryToken(1, OneAddr)
  \/ HistorySelect(1)

SpecEdit == Init /\ [][NextEdit]_vars

\* Every handler that writes token_metadata, with the sessions they read and
\* the changes of ownership.
NextGated ==
  \/ InsertToken(OneAddr)
  \/ TransferOwnership
  \/ SyncTokenOwner
  \/ TemporarySelect(1, OneSession)
  \/ TemporaryWrite(1)
  \/ LinkToken(1, OneAddr, OneSession)
  \/ LinkTemp(1)
  \/ LinkExisting(1)
  \/ LinkPut(1)
  \/ LinkWrite(1)
  \/ LinkDelete(1)
  \/ CreateToken(1, OneAddr)
  \/ CreateExisting(1)
  \/ CreateWrite(1)
  \/ PutToken(1, OneAddr)
  \/ PutWrite(1)
  \/ UploadToken(1, OneAddr)
  \/ UploadPut(1)
  \/ UploadWrite(1)

SpecGated == Init /\ [][NextGated]_vars

\* Staging before deployment: create and upload-logo with or without a
\* tokenAddress.
NextStaging ==
  \/ InsertToken(OneAddr)
  \/ CreateToken(1, OptAddr)
  \/ CreateExisting(1)
  \/ CreateWrite(1)
  \/ UploadToken(1, OptAddr)
  \/ UploadPut(1)
  \/ UploadWrite(1)

SpecStaging == Init /\ [][NextStaging]_vars

\* Reading what create, link and the token-insert trigger stored.
NextRead ==
  \/ InsertToken(OneAddr)
  \/ TemporarySelect(1, OneSession)
  \/ TemporaryWrite(1)
  \/ LinkToken(1, OneAddr, OneSession)
  \/ LinkTemp(1)
  \/ LinkExisting(1)
  \/ LinkPut(1)
  \/ LinkWrite(1)
  \/ LinkDelete(1)
  \/ CreateToken(1, OneAddr)
  \/ CreateExisting(1)
  \/ CreateWrite(1)
  \/ GetSelect(1, AddrVariants)

SpecRead == Init /\ [][NextRead]_vars

\* Two requests at once on one token: create, update and link.
NextRace ==
  \/ InsertToken(OneAddr)
  \/ TemporarySelect(1, OneSession)
  \/ TemporaryWrite(1)
  \/ \E p \in Slots :
       \/ LinkToken(p, OneAddr, OneSession)
       \/ LinkTemp(p)
       \/ LinkExisting(p)
       \/ LinkPut(p)
       \/ LinkWrite(p)
       \/ LinkDelete(p)
       \/ CreateToken(p, OneAddr)
       \/ CreateExisting(p)
       \/ CreateWrite(p)
       \/ PutToken(p, OneAddr)
       \/ PutWrite(p)

SpecRace == Init /\ [][NextRace]_vars

\* Verification next to every handler that writes token_metadata.
NextVerify ==
  \/ InsertToken(OneAddr)
  \/ TemporarySelect(1, OneSession)
  \/ TemporaryWrite(1)
  \/ LinkToken(1, OneAddr, OneSession)
  \/ LinkTemp(1)
  \/ LinkExisting(1)
  \/ LinkPut(1)
  \/ LinkWrite(1)
  \/ LinkDelete(1)
  \/ CreateToken(1, OneAddr)
  \/ CreateExisting(1)
  \/ CreateWrite(1)
  \/ PutToken(1, OneAddr)
  \/ PutWrite(1)
  \/ UploadToken(1, OneAddr)
  \/ UploadPut(1)
  \/ UploadWrite(1)
  \/ VerifyUpdate(1, OneAddr)

SpecVerify == Init /\ [][NextVerify]_vars

\* The histories of two tokens and their readers.
NextHistory ==
  \/ InsertToken(TwoAddrs)
  \/ CreateToken(1, TwoAddrs)
  \/ CreateExisting(1)
  \/ CreateWrite(1)
  \/ PutToken(1, TwoAddrs)
  \/ PutWrite(1)
  \/ HistoryToken(1, TwoAddrs)
  \/ HistorySelect(1)

SpecHistory == Init /\ [][NextHistory]_vars

\* The on-chain ownership check against the registry and the chain.
NextOwnership ==
  \/ InsertToken(OneAddr)
  \/ TransferOwnership
  \/ VerifyTokenOwnershipCall(1, OptAddr)

SpecOwnership == Init /\ [][NextOwnership]_vars

\* The logo uploads, of any file, for a token with or without a record.
NextUpload ==
  \/ InsertToken(OneAddr)
  \/ CreateToken(1, OneAddr)
  \/ CreateExisting(1)
  \/ CreateWrite(1)
  \/ UploadSingle(1, OptAddr, AnyFiles)
  \/ UploadPut(1)
  \/ UploadWrite(1)

SpecUpload == Init /\ [][NextUpload]_vars

\* Linking a session onto a token whose record may already hold a logo.
NextLogo ==
  \/ InsertToken(OneAddr)
  \/ CreateToken(1, OneAddr)
  \/ CreateExisting(1)
  \/ CreateWrite(1)
  \/ TemporarySelect(1, OneSession)
  \/ TemporaryWrite(1)
  \/ LinkToken(1, OneAddr, OneSession)
  \/ LinkTemp(1)
  \/ LinkExisting(1)
  \/ LinkPut(1)
  \/ LinkWrite(1)
  \/ LinkDelete(1)

SpecLogo == Init /\ [][NextLogo]_vars

\* The continuations of the handlers of slot p, which the event loop runs
\* once the awaited query or call has settled.
HandlerStep(p) ==
  \/ TemporaryWrite(p)
  \/ LinkTemp(p)
  \/ LinkExisting(p)
  \/ LinkPut(p)
  \/ LinkWrite(p)
  \/ LinkDelete(p)
  \/ UploadPut(p)
  \/ UploadWrite(p)

\* Uploads and links whose remote store may never answer, next to the reads
\* of another client. Every continuation whose await has settled runs, and
\* the reads keep coming.
NextHang ==
  \/ InsertToken(OneAddr)
  \/ TemporarySelect(1, OneSession)
  \/ TemporaryWrite(1)
  \/ LinkToken(1, OneAddr, OneSession)
  \/ LinkTemp(1)
  \/ LinkExisting(1)
  \/ LinkPut(1)
  \/ LinkWrite(1)
  \/ LinkDelete(1)
  \/ UploadSingle(1, OptAddr, AcceptedFiles)
  \/ UploadPut(1)
  \/ UploadWrite(1)
  \/ PutNeverReturns(1)
  \/ GetSelect(2, TwoAddrs)

SpecHang ==
  /\ Init /\ [][NextHang]_vars
  /\ WF_vars(HandlerStep(1))
  /\ WF_vars(GetSelect(2, TwoAddrs))

\* The writes of link URLs: by the form, and by any other client of the API.
NextUrls ==
  \/ InsertToken(OneAddr)
  \/ FormSubmit(1, OneAddr, UrlBodies)
  \/ CreateTokenOf(1, OneAddr, UrlBodies)
  \/ CreateExisting(1)
  \/ CreateWrite(1)
  \/ PutTokenOf(1, OneAddr, UrlBodies)
  \/ PutWrite(1)
  \/ TemporarySelectOf(1, OneSession, UrlBodies)
  \/ TemporaryWrite(1)

SpecUrls == Init /\ [][NextUrls]_vars

\* The web client's service, its calls overlapping, against a server that
\* may accept, refuse or not answer.
NextClient ==
  \/ Construct
  \/ GetSessionId
  \/ \E c \in Calls :
       \/ SaveSend(c)
       \/ SaveReturn(c)
       \/ LinkSend(c)
       \/ LinkReturn(c)

SpecClient == Init /\ [][NextClient]_vars

\* The session workflow: sessions, their expiry, and linking.
NextLink ==
  \/ Tick
  \/ InsertToken(OneAddr)
  \/ CleanupExpiredMetadata
  \/ TemporarySelect(1, TwoSessions)
  \/ TemporaryWrite(1)
  \/ LinkToken(1, OneAddr, TwoSessions)
  \/ LinkTemp(1)
  \/ LinkExisting(1)
  \/ LinkPut(1)
  \/ LinkWrite(1)
  \/ LinkDelete(1)

SpecLink == Init /\ [][NextLink]_vars

\* Two link requests at once, on two tokens.
NextConc ==
  \/ InsertToken(TwoAddrs)
  \/ \E p \in Slots :
       \/ TemporarySelect(p, OneSession)
       \/ TemporaryWrite(p)
       \/ LinkToken(p, TwoAddrs, OneSession)
       \/ LinkTemp(p)
       \/ LinkExisting(p)
       \/ LinkPut(p)
       \/ LinkWrite(p)
       \/ LinkDelete(p)

SpecConc == Init /\ [][NextConc]_vars


\* ------------------------------------------------------------------ claims

\* Slot p takes a step.
Stepped(p) == req'[p] # req[p]

\* Slot p's PUT statement updates a row and the handler answers 200.
PutSucceeds(p) ==
  /\ req[p].pc = "put_write"
  /\ req'[p].pc = "done"
  /\ req'[p].status = 200

\* C1: every successful Update (PUT /:tokenAddress) leaves update_count one
\* above its value before the call and adds exactly one history row for that
\* address, whose previous_data is the whole row as it was before the update.
C1_UpdateCountsAndRecords ==
  [][\A p \in Slots :
       PutSucceeds(p) =>
         LET addr == toLowerCase(req[p].tokenAddress) IN
         \E old \in MetadataRows(addr) :
           /\ Cardinality({m \in token_metadata' : m.token_address = addr}) = 1
           /\ \A new \in token_metadata' :
                new.token_address = addr => new.update_count = old.update_count + 1
           /\ Len(history') = Len(history) + 1
           /\ SubSeq(history', 1, Len(history)) = history
           /\ history'[Len(history')].token_address = addr
           /\ history'[Len(history')].previous_data = old]_vars

\* A PUT was answered 200 on a row that had been updated never before.
C1_Witness ==
  /\ req[1].op = "put" /\ req[1].pc = "done" /\ req[1].status = 200
  /\ Len(history) = 1
  /\ history[1].previous_data.update_count = 1
  /\ \E m \in token_metadata : m.update_count = 2

\* C2: after a successful Update by caller C the row's last_updated_by is C's
\* lowercased address, whoever updated the row before.
C2_UpdateSetsLastUpdatedBy ==
  [][\A p \in Slots :
       PutSucceeds(p) =>
         \A new \in token_metadata' :
           new.token_address = toLowerCase(req[p].tokenAddress)
             => new.last_updated_by = req[p].user]_vars

\* A statement of a handler that writes descriptive columns of token_metadata.
GatedWrite(p) ==
  /\ req[p].pc \in {"link_write", "create_write", "put_write", "upload_write"}
  /\ Stepped(p)

C4_OwnershipFromChain ==
  [][\A p \in Slots :
       (/\ Free(p) /\ Stepped(p)
        /\ req'[p].op \in {"create", "put", "link", "upload", "history"}
        /\ chainOwner[toLowerCase(req'[p].tokenAddress)] # NULL)
       => (req'[p].status = 403
             <=> chainOwner[toLowerCase(req'[p].tokenAddress)] # req'[p].user)]_vars

\* C5: LinkSession never uses an expired session: when every session matching
\* the sessionId and the caller has expired, the lookup answers 404.
C5_ExpiredSessionNotLinked ==
  [][\A p \in Slots :
       (/\ req[p].pc = "link_temp" /\ Stepped(p)
        /\ \A s \in LinkSessionRows(req[p].sessionId, req[p].user) :
             s.expires_at < now)
       => req'[p].pc = "done" /\ req'[p].status = 404]_vars

\* The statements of the link handler before its first write.
LinkLookup(p) == Free(p) \/ req[p].pc = "link_temp"

\* C6: a LinkSession that fails with 403 or 404 (no token, not the owner, no
\* session) fails in one of its lookups, and the lookups change no table: no
\* row of token_metadata, of the history or of temporary_metadata.
C6_FailedLinkChangesNothing ==
  [][\A p \in Slots :
       (Stepped(p) /\ req'[p].op = "link") =>
         /\ req'[p].status \in {403, 404} => LinkLookup(p)
         /\ LinkLookup(p) => UNCHANGED db]_vars

\* A link was refused for ownership while the caller's session is stored.
C6_Witness ==
  /\ req[1].op = "link" /\ req[1].pc = "done" /\ req[1].status = 403
  /\ LinkSessionRows(req[1].sessionId, req[1].user) # {}

\* C7: a LinkSession that inserts (the token had no row) leaves exactly one
\* row under the lowercased address, with the session's name, symbol,
\* description, link URLs and tags, update_count 1 and last_updated_by the
\* lowercased caller; its last statement leaves no session under the sessionId.
C7_LinkCreatesRecord ==
  [][\A p \in Slots :
       /\ (req[p].pc = "link_temp" /\ req'[p].pc = "link_existing")
            => req'[p].temp \in temporary_metadata
       /\ (req[p].pc = "link_write" /\ req'[p].pc = "link_delete" /\ ~req[p].existing)
            => \E row \in token_metadata' :
                 /\ {m \in token_metadata' : m.token_address = row.token_address} = {row}
                 /\ row.token_address = toLowerCase(req[p].tokenAddress)
                 /\ row.token_address \in ContractAddrs
                 /\ DescNoLogo(row) = DescNoLogo(req[p].temp)
                 /\ row.update_count = 1
                 /\ row.last_updated_by = req[p].user
                 /\ req[p].user \in ChainOwners
       /\ (req[p].pc = "link_delete" /\ Stepped(p))
            => /\ req'[p].pc = "done" /\ req'[p].status = 200
               /\ ~\E s \in temporary_metadata' : s.session_id = req[p].sessionId]_vars

\* A link on a token without a row was answered 200: the row is there, the
\* session is gone.
C7_Witness ==
  /\ req[1].op = "link" /\ req[1].pc = "done" /\ req[1].status = 200
  /\ ~req[1].existing
  /\ \E m \in token_metadata :
       /\ m.token_address = toLowerCase(req[1].tokenAddress)
       /\ m.update_count = 1
       /\ m.last_updated_by = req[1].user
  /\ SessionRows(req[1].sessionId) = {}

\* C8: LinkSession by the token's owner C naming a session that another
\* address created answers 404 and changes no table.
C8_ForeignSessionNotLinked ==
  [][\A p \in Slots :
       (/\ req[p].pc = "link_temp" /\ Stepped(p)
        /\ \E s \in SessionRows(req[p].sessionId) : s.creator_address # req[p].user)
       => /\ req'[p].pc = "done" /\ req'[p].status = 404
          /\ UNCHANGED db]_vars

\* The owner of the token was answered 404 for a session somebody else holds.
C8_Witness ==
  /\ req[1].op = "link" /\ req[1].pc = "done" /\ req[1].status = 404
  /\ req[1].tokenOwner = req[1].user
  /\ \E s \in SessionRows(req[1].sessionId) : s.creator_address # req[1].user

\* Slot p's link request has written the session it read to token_metadata.
LinkWrote(p) ==
  /\ req[p].op = "link"
  /\ \/ req[p].pc = "link_delete"
     \/ req[p].pc = "done" /\ req[p].status = 200

\* C9: a session is consumed at most once: no two link requests both write
\* the same session row (the same temporary_metadata.id) to token_metadata.
C9_SessionConsumedOnce ==
  \A p \in Slots : \A q \in Slots \ {p} :
    ~(LinkWrote(p) /\ LinkWrote(q) /\ req[p].temp.id = req[q].temp.id)

\* C10: a stored session that has not expired leaves the table only in the
\* DELETE of a LinkSession naming its sessionId.
C10_UnexpiredRemovedOnlyByLink ==
  [][\A s \in temporary_metadata :
       (~(s.expires_at < now) /\ ~\E t \in temporary_metadata' : t.id = s.id)
       => \E p \in Slots :
            /\ req[p].pc = "link_delete" /\ Stepped(p)
            /\ req[p].sessionId = s.session_id]_vars

\* Slot p's POST /temporary statement is answered 200.
TemporarySucceeds(p) ==
  /\ req[p].pc = "temporary_write"
  /\ req'[p].pc = "done"
  /\ req'[p].status = 200

\* C11: after every POST /temporary answered 200, by insert or by update,
\* exactly one session is stored under the sessionId and its expires_at is
\* the time of the write plus 24 hours.
C11_SessionRefreshed ==
  [][\A p \in Slots :
       TemporarySucceeds(p) =>
         \E s \in temporary_metadata' :
           /\ {t \in temporary_metadata' : t.session_id = req[p].sessionId} = {s}
           /\ s.expires_at = now + Interval24h]_vars

\* Slot p's POST / statement writes and the handler answers 200.
CreateSucceeds(p) ==
  /\ req[p].pc = "create_write"
  /\ req'[p].pc = "done"
  /\ req'[p].status = 200

\* C12: a POST / answered 200 for an address that has a row updates that row,
\* update_count going up by exactly 1, and leaves one row; for an address
\* without a row it inserts one row whose update_count is 1 when
\* last_updated_by names a caller and 0 when it names none.
C12_CreateUpserts ==
  [][\A p \in Slots :
       CreateSucceeds(p) =>
         LET addr == toLowerCase(req[p].tokenAddress) IN
         \E new \in token_metadata' :
           /\ {m \in token_metadata' : m.token_address = addr} = {new}
           /\ \A old \in MetadataRows(addr) :
                /\ new.update_count = old.update_count + 1
                /\ Desc(new) = Desc(CreateUpdateSet(old, req[p]))
           /\ MetadataRows(addr) = {} =>
                new.update_count = IF new.last_updated_by # NULL THEN 1 ELSE 0]_vars

\* A POST / on an address that had a row was answered 200.
C12_Witness ==
  /\ req[1].op = "create" /\ req[1].pc = "done" /\ req[1].status = 200
  /\ req[1].existing
  /\ \E m \in token_metadata :
       /\ m.token_address = toLowerCase(req[1].tokenAddress)
       /\ m.update_count = 2

\* C13: a POST / or POST /upload-logo that carries no tokenAddress is answered
\* 200 whoever the caller is, never 403, 404 or 500.
C13_NoAddressSucceeds ==
  \A p \in Slots :
    (/\ req[p].pc = "done"
     /\ req[p].op \in {"create", "upload"}
     /\ req[p].tokenAddress = NULL)
    => req[p].status = 200

\* C14: in every reachable state GET answers the same for an address and for
\* every upper/lower-case variant of it (the same row, or 404 for all), every
\* stored token_address is in lower case, and a GET request is answered so.
C14_GetIgnoresCase ==
  [][/\ \A m \in token_metadata : m.token_address = toLowerCase(m.token_address)
     /\ \A a \in AddrVariants : \A b \in AddrVariants :
          toLowerCase(a) = toLowerCase(b) => GetResult(a) = GetResult(b)
     /\ \A p \in Slots :
          (Stepped(p) /\ req'[p].op = "get") =>
            \A b \in AddrVariants :
              toLowerCase(b) = toLowerCase(req'[p].tokenAddress) =>
                /\ req'[p].status = GetResult(b).status
                /\ req'[p].result = GetResult(b).result
                /\ req'[p].status = 200 <=> MetadataRows(toLowerCase(b)) # {}]_vars

\* A GET with a mixed-case address was answered with the row stored under the
\* lower-case address.
C14_Witness ==
  /\ req[1].op = "get" /\ req[1].pc = "done" /\ req[1].status = 200
  /\ req[1].tokenAddress = "0xT1"
  /\ Len(req[1].result) = 1
  /\ req[1].result[1].token_address = "0xt1"

\* C15: in every reachable state, under every interleaving of concurrent
\* create, update and link requests on one token address, token_metadata holds
\* at most one row per token_address, and no step lowers a row's update_count.
C15_OneRecordCountGrows ==
  [][/\ \A m \in token_metadata' : \A n \in token_metadata' :
          m.token_address = n.token_address => m = n
     /\ \A m \in token_metadata :
          \E n \in token_metadata' :
            /\ n.token_address = m.token_address
            /\ n.update_count >= m.update_count]_vars

\* Two requests, a create and a link, both found no row and both tried to
\* insert: one inserted, the other was refused by the UNIQUE constraint.
C15_Witness ==
  \E p \in Slots : \E q \in Slots \ {p} :
    /\ req[p].op = "create" /\ req[q].op = "link"
    /\ ~req[p].existing /\ ~req[q].existing
    /\ {req[p].status, req[q].status} = {200, 500}
    /\ req[p].pc = "done" /\ req[q].pc = "done"
    /\ Cardinality(token_metadata) = 1

\* An UPDATE changes a stored row in this step.
RowUpdated == \E m \in token_metadata : m \notin token_metadata'

\* C16: the history only grows at its end: a step that inserts a row of
\* token_metadata (create, link, trigger) adds no history row, a step that
\* updates a stored row adds exactly one, and no step changes or removes a
\* history row.
C16_HistoryAppendOnly ==
  [][/\ Len(history') >= Len(history)
     /\ SubSeq(history', 1, Len(history)) = history
     /\ RowUpdated => Len(history') = Len(history) + 1
     /\ ~RowUpdated => history' = history
     /\ (\E n \in token_metadata' : MetadataRows(n.token_address) = {})
          => history' = history
     /\ \A p \in Slots :
          (req[p].pc \in {"create_write", "link_write"} /\ Stepped(p)) =>
            IF req[p].existing THEN Len(history') = Len(history) + 1
            ELSE history' = history]_vars

\* A link on a token that had a row was answered 200 and left one history row.
C16_Witness ==
  \E p \in Slots :
    /\ req[p].op = "link" /\ req[p].pc = "done" /\ req[p].status = 200
    /\ req[p].existing
    /\ Len(history) = 1
    /\ history[1].previous_data.update_count = 1

\* The history rows of a token address, oldest first.
HistoryOf(addr) == SelectSeq(history, LAMBDA h : h.token_address = addr)

\* C17: however the statements of concurrent updates of one token interleave,
\* each UPDATE raises update_count by 1 over the stored row and writes that
\* stored row to the history; so the history rows of a token hold consecutive
\* update_counts, the stored row is one above the last of them, and two
\* applied updates leave the count 2 above and two history rows in order.
C17_ConcurrentUpdatesCounted ==
  [][/\ \A m \in token_metadata :
          m \notin token_metadata' =>
            /\ \E n \in token_metadata' :
                 /\ n.token_address = m.token_address
                 /\ n.update_count = m.update_count + 1
            /\ history' = Append(history, history'[Len(history')])
            /\ history'[Len(history')].previous_data = m
            /\ history'[Len(history')].token_address = m.token_address
     /\ \A m \in token_metadata :
          LET h == HistoryOf(m.token_address) IN
          /\ m.update_count = 1 + Len(h)
          /\ \A i \in 1..Len(h) : h[i].previous_data.update_count = i]_vars

\* Two update requests on one token were both answered 200: two history rows,
\* the count 2 above the inserted row's.
C17_Witness ==
  /\ \A p \in Slots :
       /\ req[p].pc = "done" /\ req[p].status = 200
       /\ req[p].op \in {"put", "create", "link"}
       /\ req[p].op # "put" => req[p].existing
       /\ toLowerCase(req[p].tokenAddress) = "0xt1"
  /\ req[1].op # req[2].op
  /\ Len(history) = 2
  /\ \E m \in token_metadata : m.update_count = 3

\* C18: a verify request by a caller outside the allow-list is answered 403
\* and changes no table; a row's verified flag becomes true only in a verify
\* request of an allow-listed caller answered 200 for that address, and no
\* step (create, update, link, upload-logo) sets it otherwise or clears it.
C18_VerifyAdminOnly ==
  [][/\ \A p \in Slots :
          (Stepped(p) /\ req'[p].op = "verify" /\ req'[p].user \notin adminAddresses)
          => req'[p].status = 403 /\ UNCHANGED db
     /\ \A n \in token_metadata' :
          n.verified =>
            \/ \E m \in token_metadata :
                 m.token_address = n.token_address /\ m.verified
            \/ \E p \in Slots :
                 /\ Stepped(p) /\ req'[p].op = "verify"
                 /\ req'[p].status = 200
                 /\ req'[p].user \in adminAddresses
                 /\ toLowerCase(req'[p].tokenAddress) = n.token_address
     /\ \A m \in token_metadata :
          m.verified =>
            \E n \in token_metadata' :
              n.token_address = m.token_address /\ n.verified]_vars

\* A row was verified by the admin, then edited, and a later verify by another
\* caller was answered 403: the row is still verified.
C18_Witness ==
  /\ req[1].op = "verify" /\ req[1].pc = "done" /\ req[1].status = 403
  /\ \E m \in token_metadata :
       /\ m.token_address = toLowerCase(req[1].tokenAddress)
       /\ m.verified
       /\ m.update_count = 3

\* The positions in the history of the rows of a token address.
HistoryIndexes(addr) ==
  {i \in 1..Len(history) : history[i].token_address = addr}

\* C19: GET /:tokenAddress/history gives rows only to the caller who is, in
\* lower case, the owner it resolved (another caller gets 403 and no rows);
\* the list holds every history row of the address and no other, the row
\* written last first, the oldest last.
C19_HistoryNewestFirst ==
  [][\A p \in Slots :
       (Stepped(p) /\ req'[p].op = "history") =>
         LET addr == toLowerCase(req'[p].tokenAddress)
             idx == HistoryIndexes(addr)
             res == req'[p].result
         IN /\ (Free(p) /\ TokenRows(addr) # {}) =>
                 (req'[p].status = 403 <=> TokenOwner(addr) # req'[p].user)
            /\ req'[p].status # 200 => res = <<>>
            /\ req'[p].status = 200 =>
                 /\ req[p].user = req[p].tokenOwner
                 /\ Len(res) = Cardinality(idx)
                 /\ \A k \in 1..Len(res) :
                      \E i \in idx :
                        /\ Cardinality({j \in idx : j > i}) = k - 1
                        /\ res[k] = history[i]]_vars

\* The owner read a history of two rows: the row before the second update
\* comes first, the row before the first update last.
C19_Witness ==
  /\ req[1].op = "history" /\ req[1].pc = "done" /\ req[1].status = 200
  /\ Len(req[1].result) = 2
  /\ req[1].result[1].previous_data.update_count = 2
  /\ req[1].result[2].previous_data.update_count = 1

\* C20: verifyTokenOwnership returns true exactly when the token row exists
\* with a network, an RPC URL is configured for it, owner() returns an
\* address, and that address equals walletAddress without regard to case; in
\* every other case it returns false, and it never throws.
C20_OwnershipFailsClosed ==
  \A p \in Slots :
    (req[p].op = "verifyTokenOwnership" /\ req[p].pc = "done") =>
      LET c == req[p].result[1] IN
      /\ c.returned \in {"true", "false"}
      /\ c.returned = "true" <=>
           /\ req[p].tokenAddress # NULL
           /\ c.networks # {} /\ NULL \notin c.networks
           /\ c.rpcUrl # NULL
           /\ c.ownerCall \notin {"throw", NULL}
           /\ req[p].user # NULL
           /\ toLowerCase(c.ownerCall) = toLowerCase(req[p].user)

\* The call returned true for the owner written in lower case against the
\* checksummed address from the chain.
C20_Witness ==
  /\ req[1].op = "verifyTokenOwnership" /\ req[1].pc = "done"
  /\ req[1].result[1].returned = "true"
  /\ req[1].user = "0xa"
  /\ req[1].result[1].ownerCall = "0xA"

\* ---- C21..C23: the logo uploads

\* A file the upload must refuse: larger than 1 MiB, or of a type other
\* than JPEG, PNG and WebP.
Disallowed(f) ==
  /\ f # NoFile
  /\ \/ f.size > 1048576
     \/ f.mimetype \notin {"image/jpeg", "image/png", "image/webp"}

\* The upload request of slot p arrives in this step.
UploadArrives(p) == Free(p) /\ req'[p] # req[p] /\ req'[p].op = "upload"

C22_DisallowedFileAnswered400 ==
  \A p \in Slots :
    req[p].op = "upload" /\ req[p].pc = "done" /\ Disallowed(req[p].file) =>
      req[p].status = 400

\* The upload of slot p answers with success in this step.
UploadSucceeds(p) ==
  req[p].pc = "upload_write" /\ req'[p].pc = "done" /\ req'[p].status = 200

LinkWritesWithoutLogo(p) ==
  /\ req[p].pc = "link_write" /\ Stepped(p)
  /\ req[p].temp.logo_data # NULL
  /\ req[p].logoUrl = NULL

\* C24: a LinkSession whose session holds inline image data while the remote
\* store is missing or fails still succeeds: the record is created or updated
\* from the session's other fields, a logoUrl already stored is kept (a new
\* record has none), and the session is deleted with the answer 200.
C24_LinkSurvivesLogoFailure ==
  [][\A p \in Slots :
       /\ LinkWritesWithoutLogo(p) =>
            /\ req'[p].pc = "link_delete"
            /\ \E row \in token_metadata' :
                 /\ {m \in token_metadata' : m.token_address = row.token_address} = {row}
                 /\ row.token_address = toLowerCase(req[p].tokenAddress)
                 /\ DescNoLogo(row) = DescNoLogo(req[p].temp)
                 /\ \A old \in token_metadata :
                      old.token_address = row.token_address =>
                        row.logo_url = old.logo_url
                 /\ (~\E old \in token_metadata :
                        old.token_address = row.token_address) =>
                      row.logo_url = NULL
       /\ (req[p].pc = "link_delete" /\ Stepped(p)) =>
            /\ req'[p].pc = "done" /\ req'[p].status = 200
            /\ ~\E s \in temporary_metadata' : s.session_id = req[p].sessionId]_vars

\* A link of a session with inline image data was answered 200 on a token
\* whose record held a logo: the record took the session's fields and still
\* holds that logo, and the session is gone.
C24_Witness ==
  /\ req[1].op = "link" /\ req[1].pc = "done" /\ req[1].status = 200
  /\ req[1].existing
  /\ \E m \in token_metadata :
       /\ m.token_address = "0xt1"
       /\ m.name = "Bar" /\ m.logo_url = "https://cdn.bar/logo.png"
       /\ m.update_count = 2
  /\ SessionRows("s1") = {}

\* ---- C25: the remote store that never answers

\* C25: an upload or a link that waits for the remote store is answered in
\* the end, whatever the store does.
C25_StoreCallAnswered ==
  \A p \in Slots :
    (req[p].pc \in {"upload_put", "link_put"}) ~> (req[p].pc = "done")

\* ---- C26: the fields an Update leaves out

\* C26: an Update answered 200 leaves every descriptive field that its body
\* does not supply as it was.
C26_AbsentFieldsKept ==
  [][\A p \in Slots :
       PutSucceeds(p) =>
         \A old \in token_metadata, new \in token_metadata' :
           /\ old.token_address = toLowerCase(req[p].tokenAddress)
           /\ new.token_address = old.token_address
           => /\ req[p].body.name = NULL => new.name = old.name
              /\ req[p].body.symbol = NULL => new.symbol = old.symbol
              /\ req[p].body.description = NULL => new.description = old.description
              /\ req[p].body.logoUrl = NULL => new.logo_url = old.logo_url
              /\ req[p].body.websiteUrl = NULL => new.website_url = old.website_url
              /\ req[p].body.twitterUrl = NULL => new.twitter_url = old.twitter_url
              /\ req[p].body.telegramUrl = NULL => new.telegram_url = old.telegram_url
              /\ req[p].body.discordUrl = NULL => new.discord_url = old.discord_url
              /\ req[p].body.whitepaperUrl = NULL => new.whitepaper_url = old.whitepaper_url
              /\ req[p].body.githubUrl = NULL => new.github_url = old.github_url
              /\ req[p].body.tags = NULL => new.tags = old.tags]_vars

\* ---- C27: link URLs

\* A link URL as the specification allows it: empty, absent, or over TLS.
HttpsOrEmpty(url) ==
  url \in {NULL, "", "https://foo.io", "https://x.com/bar"}

\* The link URLs of a stored row.
LinkUrls(m) ==
  {m.website_url, m.twitter_url, m.telegram_url, m.discord_url,
   m.whitepaper_url, m.github_url}

\* C27: every link URL of every stored record and session is empty or starts
\* with https://.
C27_StoredUrlsHttps ==
  \A m \in token_metadata \cup temporary_metadata :
    \A url \in LinkUrls(m) : HttpsOrEmpty(url)

\* ---- C28: who may change a session

\* C28: a CreateOrRefreshSession naming a session that another address
\* created leaves that session as it was, fields and expires_at.
C28_OnlyCreatorChangesSession ==
  [][\A p \in Slots :
       (req[p].pc = "temporary_write" /\ Stepped(p)) =>
         \A s \in temporary_metadata :
           (s.session_id = req[p].sessionId /\ s.creator_address # req[p].user)
             => s \in temporary_metadata']_vars

\* ---- C29: what a verification changes

\* The verify of slot p is answered 200 in this step.
VerifySucceeds(p) ==
  Stepped(p) /\ req'[p].op = "verify" /\ req'[p].status = 200

\* C29: a Verify answered 200 leaves update_count, last_updated_by and the
\* descriptive fields of the row as they were and adds no history row.
C29_VerifyChangesFlagOnly ==
  [][\A p \in Slots :
       VerifySucceeds(p) =>
         /\ history' = history
         /\ \A old \in token_metadata, new \in token_metadata' :
              new.token_address = old.token_address =>
                /\ new.update_count = old.update_count
                /\ new.last_updated_by = old.last_updated_by
                /\ Desc(new) = Desc(old)]_vars

\* ---- C30: the session of the web client

\* Call c of the service takes a step.
CallStepped(c) == metadataService'.calls[c] # metadataService.calls[c]

\* Call c starts as a link, as a save.
LinkStarts(c) ==
  /\ CallStepped(c) /\ metadataService.calls[c].pc # "sent"
  /\ metadataService'.calls[c].op = "link"
SaveStarts(c) ==
  /\ CallStepped(c) /\ metadataService.calls[c].pc # "sent"
  /\ metadataService'.calls[c].op = "save"

\* The link of call c settles.
LinkSettles(c) ==
  /\ metadataService.calls[c].op = "link" /\ metadataService.calls[c].pc = "sent"
  /\ metadataService'.calls[c].pc = "done"

\* C30: a link started without a session id returns false and sends nothing;
\* a link that settles clears the session id in memory and in localStorage
\* when the server accepted it and leaves both otherwise, and nothing else
\* clears them; a save sends a session id whose link was never accepted.
C30_ClientSessionLifecycle ==
  [][/\ \A c \in Calls :
          /\ (LinkStarts(c) /\ metadataService.sessionId = NULL) =>
               /\ metadataService'.calls[c].pc = "done"
               /\ metadataService'.calls[c].result = "false"
               /\ metadataService'.sessionId = NULL
          /\ LinkSettles(c) =>
               IF metadataService'.calls[c].response = "ok"
                 THEN /\ metadataService'.sessionId = NULL
                      /\ metadataService'.storage = NULL
                      /\ metadataService'.calls[c].result = "true"
                 ELSE /\ metadataService'.sessionId = metadataService.sessionId
                      /\ metadataService'.storage = metadataService.storage
                      /\ metadataService'.calls[c].result = "false"
          /\ SaveStarts(c) =>
               /\ metadataService'.calls[c].pc = "sent"
               /\ metadataService'.calls[c].sessionId # NULL
               /\ metadataService'.calls[c].sessionId \notin metadataService.linked
     /\ \/ metadataService.sessionId = NULL
        \/ metadataService'.sessionId = metadataService.sessionId
        \/ \E c \in Calls :
             LinkSettles(c) /\ metadataService'.calls[c].response = "ok"
     /\ \/ metadataService.storage = NULL
        \/ metadataService'.storage = metadataService.storage
        \/ \E c \in Calls :
             LinkSettles(c) /\ metadataService'.calls[c].response = "ok"]_vars

\* A link was accepted and cleared the session; the save after it went out
\* with a fresh session id.
C30_Witness ==
  /\ metadataService.linked = {"1"}
  /\ metadataService.calls[1].op = "link"
  /\ metadataService.calls[1].result = "true"
  /\ metadataService.calls[2].op = "save"
  /\ metadataService.calls[2].pc = "sent"
  /\ metadataService.calls[2].sessionId = "2"
  /\ metadataService.sessionId = "2" /\ metadataService.storage = "2"

====
